---- MODULE Spec2Model ----
(***************************************************************************)
(* The permission broker of src/src/server/index.ts: the pending map, the  *)
(* long-polling POST /api/permission-request, its 5-minute timer,          *)
(* GET /api/permission-pending and POST /api/permission-respond; the       *)
(* running-process table of POST /api/chat and POST /api/abort; the        *)
(* settings files of GET /api/hook-status and POST /api/hook-configure;    *)
(* and scripts/permission-hook.sh, the client of the long-polling route.   *)
(*                                                                         *)
(* The server runs on one event loop: each handler body and each timer     *)
(* callback runs to its next suspension point without interleaving.  The   *)
(* continuation of `await new Promise(...)` is a microtask, which runs     *)
(* before any other handler or timer, so a fulfilled promise and the       *)
(* response returned to the HTTP caller are one step.                      *)
(***************************************************************************)
EXTENDS Integers, Sequences, FiniteSets, TLC

\* ----------------------------------------------------------------- bounds
\* Number of non-bypass POST /api/permission-request calls in a behaviour.
MaxReqs == 2
\* Number of clock ticks (Date.now() values beyond the first).
MaxNow == 1
\* Number of POST /api/chat calls in a behaviour.
MaxChats == 2
\* runs of the hook script
MaxHooks == 2
\* entries of a hook list in a settings file before the server touches it
MaxEntries == 2
\* POST /api/chat requests one client sends
MaxSends == 2
\* messages of a session transcript on the server
MaxMsgs == 2

\* ----------------------------------------------------------------- inputs
\* An absent optional body field (t.Optional).
NoValue == "undefined"
\* tool_use_id values a hook client supplies.
ToolUseIds == {"a"}
\* crypto.randomUUID() of the n-th registered call: fresh, never a client id.
RandomUUID(n) == "uuid" \o ToString(n)
\* Every key the pending map can hold.
Ids == ToolUseIds \cup {RandomUUID(n) : n \in 1..(MaxReqs + 1)}
SessionIds == {NoValue, "s1"}
ToolNames == {"Bash"}
ToolInputs == {"cmd"}
PermissionModes == {"default", "bypassPermissions"}

VARIABLES
    pendingPermissions, \* the Map, as the sequence of its entries in insertion order
    calls,      \* one record per suspended-or-returned non-bypass handler call
    timers,     \* armed setTimeout callbacks, in firing order
    now,        \* Date.now()
    runningProcesses, \* the Map of POST /api/chat, in insertion order
    chats,      \* one record per POST /api/chat handler call
    hooks,      \* one record per run of scripts/permission-hook.sh
    settings,   \* the content of the global and the project settings.json
    client,     \* the state of the Chat component of the browser client
    last        \* the operation that ran last and what it returned

vars == <<pendingPermissions, calls, timers, now, runningProcesses, chats,
          hooks, settings, client, last>>
\* What the permission routes never touch.
chatVars == <<runningProcesses, chats>>

\* ------------------------------------------------------------- decisions
Decision(d, reason) ==
    [hookEventName |-> "PreToolUse", permissionDecision |-> d,
     permissionDecisionReason |-> reason]
NoDecision == Decision(NoValue, NoValue)
BypassDecision == Decision("allow", "Bypass mode - auto-approved")
\* Mutant of TimeoutDecision: the timer callback resolves with an allow.
TimeoutDecisionAllow == Decision("allow", "Permission request timed out")
TimeoutDecision == Decision("deny", "Permission request timed out")
\* Mutant of UserDecision: the allow flag is dropped and every answer allows.
UserDecisionAlwaysAllow(allow) == Decision("allow", "User approved")
UserDecision(allow) ==
    Decision(IF allow THEN "allow" ELSE "deny",
             IF allow THEN "User approved" ELSE "User denied permission")

\* ------------------------------------------------------------ Map helpers
Has(map, id) == \E i \in 1..Len(map) : map[i].id = id
IndexOf(map, id) == CHOOSE i \in 1..Len(map) : map[i].id = id
Get(map, id) == map[IndexOf(map, id)]
\* Map.set: a new key is appended, an existing key keeps its place and
\* has its value replaced.
MapSet(map, id, entry) ==
    IF Has(map, id) THEN [map EXCEPT ![IndexOf(map, id)] = entry]
    ELSE Append(map, entry)
MapDelete(map, id) ==
    IF Has(map, id)
    THEN LET k == IndexOf(map, id)
         IN  [i \in 1..(Len(map) - 1) |-> IF i < k THEN map[i] ELSE map[i + 1]]
    ELSE map

\* ------------------------------------------------------- promise helpers
\* A handler call's closure: the id it registered under, its promise, and
\* history fields that record what happened to it (resolveCalls: how often
\* its resolve function was invoked; answer: the first permission-respond
\* for its id that ran while its timer was still armed; removedBy: what
\* took its entry out of the map).
NewCall(id) ==
    [id |-> id, promise |-> "pending", decision |-> NoDecision,
     resolveCalls |-> 0, answer |-> NoDecision, removedBy |-> NoValue]
\* Invoking a promise's resolve function: the first invocation fulfils the
\* promise, every later one is ignored by the promise.
Resolve(c, d) ==
    [c EXCEPT !.resolveCalls = @ + 1,
              !.promise = "fulfilled",
              !.decision = IF c.promise = "pending" THEN d ELSE @]
Suspended(r) == calls[r].promise = "pending"
\* The map entry holding call r's resolve function is in the map.
RegisteredIn(map, r) == \E i \in 1..Len(map) : map[i].resolve = r
Registered(r) == RegisteredIn(pendingPermissions, r)
TimerArmed(r) == \E i \in 1..Len(timers) : timers[i].resolve = r

\* --------------------------------------------- POST /api/permission-request
\* const id = tool_use_id || crypto.randomUUID()
RequestId(tool_use_id, n) ==
    IF tool_use_id = NoValue \/ tool_use_id = "" THEN RandomUUID(n) ELSE tool_use_id
\* Mutant of IsBypass: the bypass branch is never taken.
IsBypassNever(permission_mode) == FALSE
IsBypass(permission_mode) == permission_mode = "bypassPermissions"
\* The Map entry the promise executor stores.
Entry(id, session_id, tool_name, tool_input, r) ==
    [id |-> id,
     sessionId |-> IF session_id = NoValue \/ session_id = "" THEN "" ELSE session_id,
     toolName |-> tool_name,
     toolInput |-> tool_input,
     timestamp |-> now,
     resolve |-> r]
\* pendingPermissions.set(id, {...})
Register(map, id, entry) == MapSet(map, id, entry)

PermissionRequest(tool_name, tool_input, tool_use_id, session_id, permission_mode) ==
    LET r == Len(calls) + 1
        id == RequestId(tool_use_id, r)
    IN  IF IsBypass(permission_mode)
        THEN /\ last' = [op |-> "permission-request", id |-> id,
                         mode |-> permission_mode, response |-> BypassDecision]
             /\ UNCHANGED <<pendingPermissions, calls, timers, now>>
             /\ UNCHANGED <<chatVars, settings, client>>
        ELSE /\ Len(calls) < MaxReqs
             /\ pendingPermissions' =
                    Register(pendingPermissions, id,
                             Entry(id, session_id, tool_name, tool_input, r))
             /\ calls' =
                    Append([k \in 1..Len(calls) |->
                               IF Has(pendingPermissions, id)
                                  /\ Get(pendingPermissions, id).resolve = k
                               THEN [calls[k] EXCEPT !.removedBy = "overwritten"]
                               ELSE calls[k]],
                           NewCall(id))
             /\ timers' = Append(timers, [id |-> id, resolve |-> r])
             /\ last' = [op |-> "permission-request", id |-> id,
                         mode |-> permission_mode, call |-> r]
             /\ UNCHANGED <<now, chatVars, settings, client>>

\* ------------------------------------------------------ setTimeout callback
\* All timers have the same delay (300000 ms), so they fire in arming order.
\* if (pendingPermissions.has(id)) { pendingPermissions.delete(id); resolve(deny) }
TimeoutFires(map, id) == Has(map, id)
\* Mutant of TimeoutDelete: the callback clears the whole map.
TimeoutDeleteAll(map, id) == <<>>
\* Mutant of TimeoutDelete: the callback resolves but leaves the entry.
TimeoutDeleteSkipped(map, id) == map
TimeoutDelete(map, id) == MapDelete(map, id)

Timeout ==
    /\ timers # <<>>
    /\ LET t == Head(timers)
           fires == TimeoutFires(pendingPermissions, t.id)
       IN  /\ timers' = Tail(timers)
           /\ last' = [op |-> "timeout", id |-> t.id, resolve |-> t.resolve,
                       fired |-> fires]
           /\ IF fires
              THEN LET owner == Get(pendingPermissions, t.id).resolve
                   IN  /\ pendingPermissions' = TimeoutDelete(pendingPermissions, t.id)
                       /\ calls' =
                            [k \in 1..Len(calls) |->
                               LET c == IF k = owner
                                        THEN [calls[k] EXCEPT !.removedBy =
                                                IF owner = t.resolve THEN "timeout"
                                                ELSE "staleTimer"]
                                        ELSE calls[k]
                               IN  IF k = t.resolve THEN Resolve(c, TimeoutDecision)
                                   ELSE c]
              ELSE UNCHANGED <<pendingPermissions, calls>>
    /\ UNCHANGED <<now, chatVars, hooks, settings, client>>

\* ---------------------------------------------- GET /api/permission-pending
PendingItems(map) ==
    [i \in 1..Len(map) |->
        [id |-> map[i].id, sessionId |-> map[i].sessionId,
         toolName |-> map[i].toolName, toolInput |-> map[i].toolInput,
         timestamp |-> map[i].timestamp]]

PermissionPending ==
    /\ last' = [op |-> "permission-pending",
                response |-> [success |-> TRUE,
                              pending |-> PendingItems(pendingPermissions)]]
    /\ UNCHANGED <<pendingPermissions, calls, timers, now>>
    /\ UNCHANGED <<chatVars, hooks, settings, client>>

\* --------------------------------------------- POST /api/permission-respond
\* const request = pendingPermissions.get(id); if (!request) return not found
RespondFound(map, id) == Has(map, id)
\* Mutant of RespondDelete: the entry is left in the map.
RespondDeleteSkipped(map, id) == map
\* pendingPermissions.delete(id)
RespondDelete(map, id) == MapDelete(map, id)
\* Mutant of RespondNotFound: a missing entry is reported as success.
RespondNotFoundAsSuccess == [success |-> TRUE]
RespondNotFound ==
    [success |-> FALSE, error |-> "Permission request not found or expired"]
RespondOk == [success |-> TRUE]

PermissionRespond(id, allow) ==
    LET found == RespondFound(pendingPermissions, id)
        \* history: the calls under this id whose timer is still armed and
        \* that no earlier permission-respond has addressed
        noted == [k \in 1..Len(calls) |->
                    IF calls[k].id = id /\ TimerArmed(k)
                       /\ calls[k].answer = NoDecision
                    THEN [calls[k] EXCEPT !.answer = UserDecision(allow)]
                    ELSE calls[k]]
    IN  /\ last' = [op |-> "permission-respond", id |-> id, allow |-> allow,
                    response |-> IF found THEN RespondOk ELSE RespondNotFound]
        /\ IF found
           THEN LET owner == Get(pendingPermissions, id).resolve
                IN  /\ pendingPermissions' = RespondDelete(pendingPermissions, id)
                    /\ calls' =
                         [noted EXCEPT ![owner] =
                            Resolve([noted[owner] EXCEPT !.removedBy = "respond"],
                                    UserDecision(allow))]
           ELSE /\ pendingPermissions' = pendingPermissions
                /\ calls' = noted
        /\ UNCHANGED <<timers, now, chatVars, hooks, settings>>

\* -------------------------------------------------------------- Date.now()
Tick ==
    /\ now < MaxNow
    /\ now' = now + 1
    /\ last' = [op |-> "tick"]
    /\ UNCHANGED <<pendingPermissions, calls, timers, chatVars, hooks,
                   settings, client>>

\* ================================================ scripts/permission-hook.sh
\* One run of the script: INPUT is posted with curl --max-time 300; the run
\* is in state "curl" until curl exits and "exited" after its echo.
\* call is the server's handler call that took the request (0: none did);
\* curlExit is -1 while curl runs.
NoResponse == [empty |-> TRUE]
\* Nothing echoed yet.
NoOutput == [echoed |-> FALSE]
HookRun(permission_mode, call, state, curlExit, response, output) ==
    [mode |-> permission_mode, call |-> call, state |-> state,
     curlExit |-> curlExit, response |-> response, output |-> output]
\* The fixed JSON the script echoes when CURL_EXIT is not 0.
HookFailed == Decision("deny", "Failed to connect to permission server")
\* Mutant of HookOutput: a failed curl is answered with an allow.
HookOutputFailOpen(curlExit, response) ==
    IF curlExit # 0 THEN Decision("allow", "Failed to connect to permission server")
    ELSE response
\* if [ $CURL_EXIT -ne 0 ]; then echo deny; else echo "$RESPONSE"
HookOutput(curlExit, response) ==
    IF curlExit # 0 THEN HookFailed ELSE response
\* The 422 answer of the route's body schema (tool_name is required); curl
\* runs without --fail, so it exits 0 on it.
ValidationError == [type |-> "validation", on |-> "body"]

\* curl reaches the server with a body the schema accepts: the handler runs.
\* A bypass request is answered at once; otherwise curl waits.
HookPost(tool_name, tool_input, tool_use_id, session_id, permission_mode) ==
    /\ Len(hooks) < MaxHooks
    /\ PermissionRequest(tool_name, tool_input, tool_use_id, session_id,
                         permission_mode)
    /\ hooks' = Append(hooks,
                  IF IsBypass(permission_mode)
                  THEN HookRun(permission_mode, 0, "exited", 0, BypassDecision,
                               HookOutput(0, BypassDecision))
                  ELSE HookRun(permission_mode, Len(calls) + 1, "curl", -1,
                               NoResponse, NoOutput))

\* curl reaches the server with a body the schema rejects: no handler runs.
HookPostInvalid ==
    /\ Len(hooks) < MaxHooks
    /\ hooks' = Append(hooks, HookRun(NoValue, 0, "exited", 0, ValidationError,
                                      HookOutput(0, ValidationError)))
    /\ last' = [op |-> "hook-invalid", hook |-> Len(hooks) + 1,
                response |-> ValidationError]
    /\ UNCHANGED <<pendingPermissions, calls, timers, now, chatVars, settings, client>>

\* curl cannot connect (exit 7): the server never sees the request.
HookUnreachable(permission_mode) ==
    /\ Len(hooks) < MaxHooks
    /\ hooks' = Append(hooks, HookRun(permission_mode, 0, "exited", 7, NoResponse,
                                      HookOutput(7, NoResponse)))
    /\ last' = [op |-> "hook-unreachable", hook |-> Len(hooks) + 1]
    /\ UNCHANGED <<pendingPermissions, calls, timers, now, chatVars, settings, client>>

\* The handler call returned its decision and curl received it (exit 0).
HookReceive(h) ==
    /\ h \in 1..Len(hooks)
    /\ hooks[h].state = "curl"
    /\ calls[hooks[h].call].promise = "fulfilled"
    /\ LET response == calls[hooks[h].call].decision
       IN  hooks' = [hooks EXCEPT ![h] =
                        HookRun(hooks[h].mode, hooks[h].call, "exited", 0, response,
                                HookOutput(0, response))]
    /\ last' = [op |-> "hook-receive", hook |-> h]
    /\ UNCHANGED <<pendingPermissions, calls, timers, now, chatVars, settings, client>>

\* --max-time 300 elapses first (exit 28): curl closes the connection.  The
\* server's handler call stays suspended and its entry stays in the map.
HookCurlTimeout(h) ==
    /\ h \in 1..Len(hooks)
    /\ hooks[h].state = "curl"
    /\ hooks' = [hooks EXCEPT ![h] =
                    HookRun(hooks[h].mode, hooks[h].call, "exited", 28, NoResponse,
                            HookOutput(28, NoResponse))]
    /\ last' = [op |-> "hook-disconnect", hook |-> h]
    /\ UNCHANGED <<pendingPermissions, calls, timers, now, chatVars, settings, client>>

\* ================================== settings.json, hook-status, hook-configure
\* body.location: "global" is $HOME/.claude/settings.json, "project" is
\* CLAUDE_CWD/.claude/settings.json.
Locations == {"global", "project"}

\* A settings file is missing, not JSON, or holds a JSON value.  Of a JSON
\* value the model keeps what the two routes read: its kind, its "hooks"
\* member, and of that its "PreToolUse" and "PermissionRequest" members.
\* A member that is absent, null, false, 0 or "" is "falsy"; "truthy" is any
\* other value that is neither an array nor an object.
\* An entry of a hook list is "ours" (one of its hooks has a command that
\* includes "permission-hook.sh"), "other" (a well-formed entry without
\* one), or "bad" (the callback of some() throws on it: a null entry, a
\* hooks member that is no array, a command that is no string).
NoFile == [kind |-> "missing"]
InvalidFile == [kind |-> "invalid"]
Falsy == [kind |-> "falsy"]
Primitive == [kind |-> "truthy"]
ArrayOf(items) == [kind |-> "array", items |-> items]
EntryKinds == {"ours", "other", "bad"}
EntryLists == UNION {[1..n -> EntryKinds] : n \in 0..MaxEntries}
\* The values of hooks.PreToolUse and hooks.PermissionRequest.
HookLists == {Falsy, Primitive} \cup {ArrayOf(items) : items \in EntryLists}
LegacyLists == {Falsy, ArrayOf(<<"ours">>)}
\* An object or an array with the named properties (an array is an object,
\* and a property can be set on it).
HooksValue(kind, preToolUse, legacy) ==
    [kind |-> kind, PreToolUse |-> preToolUse, PermissionRequest |-> legacy]
SettingsValue(kind, hooksMember) == [kind |-> kind, hooks |-> hooksMember]
\* What JSON.parse can return for the "hooks" member and for the file.
HooksMembers ==
    {Falsy, Primitive, HooksValue("array", Falsy, Falsy)}
    \cup {HooksValue("object", p, l) : p \in HookLists, l \in LegacyLists}
SettingsFiles ==
    {NoFile, InvalidFile, [kind |-> "null"], Primitive, SettingsValue("array", Falsy)}
    \cup {SettingsValue("object", h) : h \in HooksMembers}

\* Bun.file(path).text() and JSON.parse: throws on a missing or invalid file.
ParseThrows(file) == file.kind \in {"missing", "invalid"}
\* JSON.stringify: only an object's own properties are written; the
\* properties set on an array are not.
StringifyHooks(h) ==
    IF h.kind = "array" THEN HooksValue("array", Falsy, Falsy) ELSE h
Stringify(s) ==
    IF s.kind = "array" THEN SettingsValue("array", Falsy)
    ELSE SettingsValue(s.kind, StringifyHooks(s.hooks))

\* list.some(h => h.hooks?.some(hook => hook.command?.includes("permission-hook.sh")))
\* stops at the first entry of ours and throws at a bad entry before it.
FirstOf(items, kind) ==
    IF \E i \in 1..Len(items) : items[i] = kind
    THEN CHOOSE i \in 1..Len(items) :
            items[i] = kind /\ \A j \in 1..(i - 1) : items[j] # kind
    ELSE Len(items) + 1
Some(items) ==
    IF FirstOf(items, "bad") < FirstOf(items, "ours") THEN "throws"
    ELSE IF FirstOf(items, "ours") <= Len(items) THEN "true"
    ELSE "false"

\* ------------------------------------------------------ GET /api/hook-status
\* settings?.hooks?.X : undefined unless settings is an object or array that
\* has a hooks member with member X.
Member(hooksMember, name) ==
    IF hooksMember.kind \in {"array", "object"}
    THEN IF name = "PreToolUse" THEN hooksMember.PreToolUse
         ELSE hooksMember.PermissionRequest
    ELSE Falsy
checkSettings(file) ==
    IF ParseThrows(file) THEN FALSE
    ELSE LET hooksMember == IF file.kind \in {"array", "object"} THEN file.hooks
                            ELSE Falsy
             pre == Member(hooksMember, "PreToolUse")
             list == IF pre.kind # "falsy" THEN pre
                     ELSE Member(hooksMember, "PermissionRequest")
         IN  /\ list.kind = "array"
             /\ Some(list.items) = "true"
StatusResponse(files) ==
    [success |-> TRUE,
     configured |-> checkSettings(files["global"]) \/ checkSettings(files["project"]),
     globalConfigured |-> checkSettings(files["global"]),
     projectConfigured |-> checkSettings(files["project"])]
HookStatus ==
    /\ last' = [op |-> "hook-status", response |-> StatusResponse(settings)]
    /\ UNCHANGED <<pendingPermissions, calls, timers, now, chatVars, hooks,
                   settings, client>>

\* The client shows the banner unless the status is not loaded or configured.
SetupBanner(hookStatus) ==
    ~(hookStatus = [loaded |-> FALSE] \/ hookStatus.configured)

\* --------------------------------------------------- POST /api/hook-configure
\* let settings = {}; try { settings = JSON.parse(content) } catch {}
ReadSettings(file) ==
    IF ParseThrows(file) THEN SettingsValue("object", Falsy) ELSE file
\* The statements from `if (!settings.hooks)` to the push.  A property read
\* on null throws, and so does a property assignment on a primitive (the
\* module is strict code), some() on a value that is no array, and the
\* callback on a bad entry.  Returns [throws] or the settings to write.
AddHookThrows == [throws |-> TRUE]
AddHook(s) ==
    IF s.kind \notin {"array", "object"} THEN AddHookThrows
    ELSE LET h0 == IF s.hooks.kind = "falsy"
                   THEN HooksValue("object", Falsy, Falsy) ELSE s.hooks
         IN  IF h0.kind \notin {"array", "object"} THEN AddHookThrows
             ELSE LET p0 == IF h0.PreToolUse.kind = "falsy" THEN ArrayOf(<<>>)
                            ELSE h0.PreToolUse
                  IN  IF p0.kind # "array" THEN AddHookThrows
                      ELSE IF Some(p0.items) = "throws" THEN AddHookThrows
                      ELSE LET p1 == IF Some(p0.items) = "true" THEN p0
                                     ELSE ArrayOf(Append(p0.items, "ours"))
                           IN  [throws |-> FALSE,
                                settings |->
                                  SettingsValue(s.kind,
                                    HooksValue(h0.kind, p1, h0.PermissionRequest))]
ConfigureOk(location) ==
    [success |-> TRUE, message |-> "Hook configured in " \o location \o " settings"]
ConfigureFailed == [success |-> FALSE]
\* writeThrows: mkdir -p or Bun.write fails.
HookConfigure(location, writeThrows) ==
    LET added == AddHook(ReadSettings(settings[location]))
        ok == ~added.throws /\ ~writeThrows
    IN  /\ settings' = IF ok
                       THEN [settings EXCEPT ![location] = Stringify(added.settings)]
                       ELSE settings
        /\ last' = [op |-> "hook-configure", location |-> location,
                    response |-> IF ok THEN ConfigureOk(location) ELSE ConfigureFailed]
        /\ UNCHANGED <<pendingPermissions, calls, timers, now, chatVars, hooks, client>>

\* ============================================================ POST /api/chat
RequestIds == {"r1"}
Messages == {"hi"}
ChatSessionIds == {NoValue, "", "s1"}
ChatModes == {NoValue, "", "plan"}
\* What the subprocess wrote to stdout / stderr.
Outputs == {"", "text"}
\* What Bun.spawn or a rejected read throws.
Thrown == {[kind |-> "Error", message |-> "spawn failed"], [kind |-> "undefined"]}
\* JavaScript truthiness of an optional string.
Truthy(s) == s # NoValue /\ s # ""

\* Mutant of ChatArgs: --resume is pushed for every sessionId that is not
\* undefined, the empty string included.
ChatArgsResumeEmpty(message, sessionId, permissionMode) ==
    <<"-p", message, "--permission-mode",
      IF Truthy(permissionMode) THEN permissionMode ELSE "default",
      "--output-format", "stream-json", "--verbose">>
    \o (IF sessionId # NoValue THEN <<"--resume", sessionId>> ELSE <<>>)
\* const args = [...]; if (sessionId) args.push("--resume", sessionId)
ChatArgs(message, sessionId, permissionMode) ==
    <<"-p", message, "--permission-mode",
      IF Truthy(permissionMode) THEN permissionMode ELSE "default",
      "--output-format", "stream-json", "--verbose">>
    \o (IF Truthy(sessionId) THEN <<"--resume", sessionId>> ELSE <<>>)

NoResult == [pending |-> TRUE]
AbortedResult == [success |-> FALSE, aborted |-> TRUE, error |-> "Request aborted"]
\* Mutant of ExitResult: a failed subprocess is reported as a success.
ExitResultAsSuccess(stderr, output) == [success |-> TRUE, response |-> output]
\* error: stderr || output || `Claude command failed with exit code ${code}`
ExitResult(stderr, output) ==
    [success |-> FALSE,
     error |-> IF stderr # "" THEN stderr
               ELSE IF output # "" THEN output
               ELSE "Claude command failed with exit code"]
\* parseStreamOutput(output): the parser is outside this model.
SuccessResult(output) == [success |-> TRUE, response |-> output]
\* The catch block's errorMsg.
CatchResult(e) ==
    [success |-> FALSE,
     error |-> IF e.kind = "Error" THEN e.message ELSE "Unknown error"]

\* A handler call: its requestId, its subprocess (none, running, exited0,
\* exited1, killed), its processEntry.aborted flag, where the handler is
\* (reading: suspended in the awaits of lines 113-116; returned), and what
\* it returned.  History: spawns counts Bun.spawn calls, threw records that
\* the catch block ran.
NewChat(requestId, proc, pc, result, threw) ==
    [requestId |-> requestId, proc |-> proc, aborted |-> FALSE, pc |-> pc,
     result |-> result, spawns |-> 1, threw |-> threw]

\* if (requestId) runningProcesses.set(requestId, processEntry)
Track(map, requestId, c) ==
    IF Truthy(requestId) THEN MapSet(map, requestId, [id |-> requestId, chat |-> c])
    ELSE map
\* if (requestId) runningProcesses.delete(requestId)
Untrack(map, requestId) ==
    IF Truthy(requestId) THEN MapDelete(map, requestId) ELSE map

\* The handler up to its first await: Bun.spawn either throws (the catch
\* block returns) or the subprocess runs and is tracked.
PostChat(message, sessionId, requestId, permissionMode, spawnThrows, e) ==
    LET c == Len(chats) + 1
        argv == <<"claude">> \o ChatArgs(message, sessionId, permissionMode)
    IN  /\ Len(chats) < MaxChats
        /\ last' = [op |-> "chat", chat |-> c, argv |-> argv,
                    body |-> [message |-> message, sessionId |-> sessionId,
                              requestId |-> requestId,
                              permissionMode |-> permissionMode]]
        /\ IF spawnThrows
           THEN /\ chats' = Append(chats, NewChat(requestId, "none", "returned",
                                                  CatchResult(e), TRUE))
                /\ UNCHANGED runningProcesses
           ELSE /\ chats' = Append(chats, NewChat(requestId, "running", "reading",
                                                  NoResult, FALSE))
                /\ runningProcesses' = Track(runningProcesses, requestId, c)
        /\ UNCHANGED <<pendingPermissions, calls, timers, now, hooks, settings, client>>

\* The subprocess ends on its own.
ProcExit(c, code) ==
    /\ chats[c].proc = "running"
    /\ chats' = [chats EXCEPT ![c].proc = IF code = 0 THEN "exited0" ELSE "exited1"]
    /\ last' = [op |-> "exit", chat |-> c, code |-> code]
    /\ UNCHANGED <<pendingPermissions, calls, timers, now, hooks, settings, client,
                   runningProcesses>>

\* if (processEntry.aborted) ... ; if (proc.exitCode !== 0) ... ; success
ChatResult(aborted, proc, stderr, output) ==
    IF aborted THEN AbortedResult
    ELSE IF proc # "exited0" THEN ExitResult(stderr, output)
    ELSE SuccessResult(output)

\* The handler after its awaits (stdout and stderr read to their end, the
\* subprocess gone): clean up, then return.
ChatResume(c, stderr, output) ==
    /\ chats[c].pc = "reading"
    /\ chats[c].proc \in {"exited0", "exited1", "killed"}
    /\ runningProcesses' = Untrack(runningProcesses, chats[c].requestId)
    /\ chats' = [chats EXCEPT
                   ![c].pc = "returned",
                   ![c].result = ChatResult(chats[c].aborted, chats[c].proc,
                                            stderr, output)]
    /\ last' = [op |-> "chat-return", chat |-> c]
    /\ UNCHANGED <<pendingPermissions, calls, timers, now, hooks, settings, client>>

\* One of the awaits of lines 113-116 rejects: the catch block returns.
ReadThrows(c, e) ==
    /\ chats[c].pc = "reading"
    /\ chats' = [chats EXCEPT ![c].pc = "returned", ![c].threw = TRUE,
                              ![c].result = CatchResult(e)]
    /\ last' = [op |-> "chat-return", chat |-> c]
    /\ UNCHANGED <<pendingPermissions, calls, timers, now, hooks, settings, client,
                   runningProcesses>>

\* =========================================================== POST /api/abort
AbortOk == [success |-> TRUE, message |-> "Request aborted"]
\* Mutant of AbortNotFound: a missing entry is reported as an abort.
AbortNotFoundAsOk == [success |-> TRUE, message |-> "Request aborted"]
AbortNotFound == [success |-> FALSE, error |-> "No running request found"]
\* proc.kill(): a subprocess that is already gone is not affected.
Kill(proc) == IF proc = "running" THEN "killed" ELSE proc

PostAbort(requestId) ==
    /\ IF Has(runningProcesses, requestId)
       THEN LET c == Get(runningProcesses, requestId).chat
            IN  /\ chats' = [chats EXCEPT ![c].aborted = TRUE,
                                          ![c].proc = Kill(@)]
                /\ runningProcesses' = MapDelete(runningProcesses, requestId)
                /\ last' = [op |-> "abort", requestId |-> requestId,
                            chat |-> c, response |-> AbortOk]
       ELSE /\ last' = [op |-> "abort", requestId |-> requestId,
                        chat |-> 0, response |-> AbortNotFound]
            /\ UNCHANGED <<runningProcesses, chats>>
    /\ UNCHANGED <<pendingPermissions, calls, timers, now, hooks, settings, client>>


\* ======================================== src/client/components/Chat.tsx
\* The Chat component.  A handler sees the state of the render it was
\* created in; the component re-renders and runs its effects after every
\* state change, so a user's click sees the current state, while a callback
\* handed to setTimeout keeps the state of the render that created it.
\* What the user types into the textarea, and the joined answer text.
Texts == {"hi"}
AnswerText == "answer"
ClientSessions == {"s1"}
\* The length of a transcript GET /api/sessions/:id returns.
Counts == 0..MaxMsgs
\* How a POST /api/chat fetch settles: data.success, data.aborted, another
\* data.error, or a rejected fetch.
Outcomes == {"success", "aborted", "error", "rejected"}
\* Date.now().toString(36) + Math.random().toString(36).slice(2): fresh.
NewRequestId(n) == "req" \o ToString(n)

\* useState / useRef initial values.  chats, loads, sessionPolls,
\* permissionPolls are the fetches the component has started; cleanups
\* and sendTimers are its armed setTimeout callbacks; polling is whether
\* pollingRef holds an interval; answered is history: the ids the user
\* responded to since the session was last selected.
InitClient ==
    [isLoading |-> FALSE, currentSessionId |-> NoValue,
     currentRequestId |-> NoValue, input |-> "",
     pendingPermissions |-> <<>>, respondedPermissions |-> {},
     questionAnswers |-> {}, messages |-> 0, messageCount |-> 0,
     polling |-> FALSE, chats |-> <<>>, loads |-> <<>>,
     sessionPolls |-> <<>>, permissionPolls |-> <<>>,
     cleanups |-> <<>>, sendTimers |-> <<>>, answered |-> {}]
serverVars == <<pendingPermissions, calls, timers, now, chatVars, hooks, settings>>

\* The session-polling effect: after a render the interval exists exactly
\* if isLoading and no permission request is displayed.
PollingEffect(c) == c.isLoading /\ c.pendingPermissions = <<>>
Render(c) == [c EXCEPT !.polling = PollingEffect(c)]

\* sendMessage as created by a render that saw isLoading and currentSessionId.
sendMessage(c, isLoading, currentSessionId) ==
    IF c.input = "" \/ isLoading THEN c
    ELSE [c EXCEPT !.input = "",
                   !.currentRequestId = NewRequestId(Len(c.chats) + 1),
                   !.messages = @ + 1,
                   !.messageCount = c.messages + 1,
                   !.isLoading = TRUE,
                   !.chats = Append(@, [requestId |-> NewRequestId(Len(c.chats) + 1),
                                        sessionId |-> currentSessionId,
                                        state |-> "sent"])]
InFlight(c) == {i \in 1..Len(c.chats) : c.chats[i].state = "sent"}

\* The user types (the textarea is disabled while isLoading).
TypeInput(text) ==
    /\ ~client.isLoading
    /\ client.input = ""
    /\ client' = Render([client EXCEPT !.input = text])
    /\ last' = [op |-> "type"]
    /\ UNCHANGED serverVars
\* The user presses Enter or the send button (shown while not isLoading).
ClickSend ==
    /\ ~client.isLoading
    /\ client.input # ""
    /\ Len(client.chats) + Len(client.sendTimers) < MaxSends
    /\ client' = Render(sendMessage(client, client.isLoading, client.currentSessionId))
    /\ last' = [op |-> "send", sent |-> Len(client'.chats) > Len(client.chats)]
    /\ UNCHANGED serverVars
\* The fetch of POST /api/chat settles: .then or .catch, then .finally.
ChatSettles(i, outcome) ==
    /\ i \in InFlight(client)
    /\ client' = Render(
         [client EXCEPT
            !.chats[i].state =
                IF outcome = "success" /\ client.chats[i].sessionId = NoValue
                THEN "created" ELSE "settled",
            !.messages = IF outcome = "success" THEN @ ELSE @ + 1,
            !.isLoading = FALSE,
            !.currentRequestId = NoValue])
    /\ last' = [op |-> "chat-settled", chat |-> i, outcome |-> outcome]
    /\ UNCHANGED serverVars
\* After a successful chat without a session: the newest session of
\* GET /api/sessions becomes the current one and its messages are loaded.
NewSessionLoaded(i, sessionId, n) ==
    /\ i \in 1..Len(client.chats)
    /\ client.chats[i].state = "created"
    /\ client' = Render([client EXCEPT !.chats[i].state = "settled",
                                       !.currentSessionId = sessionId,
                                       !.messages = n,
                                       !.messageCount = n])
    /\ last' = [op |-> "session-created", chat |-> i]
    /\ UNCHANGED serverVars
\* selectSession up to its fetch.
SelectSession(sessionId) ==
    /\ client.loads = <<>>
    /\ client' = Render([client EXCEPT !.currentSessionId = sessionId,
                                       !.isLoading = TRUE,
                                       !.pendingPermissions = <<>>,
                                       !.questionAnswers = {},
                                       !.respondedPermissions = {},
                                       !.answered = {},
                                       !.loads = Append(@, sessionId)])
    /\ last' = [op |-> "select-session", sessionId |-> sessionId]
    /\ UNCHANGED serverVars
\* selectSession after its fetch: the messages or, on failure, none.
SessionLoaded(ok, n) ==
    /\ client.loads # <<>>
    /\ client' = Render([client EXCEPT !.loads = Tail(@),
                                       !.messages = IF ok THEN n ELSE 0,
                                       !.messageCount = IF ok THEN n ELSE 0,
                                       !.isLoading = FALSE])
    /\ last' = [op |-> "session-loaded"]
    /\ UNCHANGED serverVars
StartNewSession ==
    /\ client' = Render([client EXCEPT !.messages = 0,
                                       !.currentSessionId = NoValue,
                                       !.messageCount = 0,
                                       !.pendingPermissions = <<>>,
                                       !.questionAnswers = {},
                                       !.respondedPermissions = {},
                                       !.answered = {}])
    /\ last' = [op |-> "new-session"]
    /\ UNCHANGED serverVars
\* The stop button (shown while isLoading): POST /api/abort with
\* currentRequestId, or nothing when there is none.
AbortRequest ==
    /\ client.isLoading
    /\ last' = [op |-> "abort-request", requestId |-> client.currentRequestId,
                sent |-> client.currentRequestId # NoValue]
    /\ UNCHANGED <<serverVars, client>>

\* pollPermissions up to its fetch: the server answers with its list.  The
\* callback belongs to the effect of the current currentSessionId.
PollPermissions ==
    /\ client.permissionPolls = <<>>
    /\ client' = [client EXCEPT !.permissionPolls =
                     Append(@, [pending |-> PendingItems(pendingPermissions),
                                currentSessionId |-> client.currentSessionId])]
    /\ last' = [op |-> "poll-permissions"]
    /\ UNCHANGED serverVars
\* data.pending.filter(...): not responded to, and of the current session.
FilterPending(pending, responded, currentSessionId) ==
    SelectSeq(pending,
              LAMBDA q : /\ q.id \notin responded
                         /\ (currentSessionId = NoValue
                             \/ q.sessionId = currentSessionId))
PermissionsArrive ==
    /\ client.permissionPolls # <<>>
    /\ LET poll == Head(client.permissionPolls)
       IN  client' = Render(
             [client EXCEPT
                !.permissionPolls = Tail(@),
                !.pendingPermissions =
                    FilterPending(poll.pending, client.respondedPermissions,
                                  poll.currentSessionId)])
    /\ last' = [op |-> "permissions-arrive"]
    /\ UNCHANGED serverVars

Displayed(c, id) ==
    \E i \in 1..Len(c.pendingPermissions) : c.pendingPermissions[i].id = id
IsQuestion(c, id) ==
    \E i \in 1..Len(c.pendingPermissions) :
        /\ c.pendingPermissions[i].id = id
        /\ c.pendingPermissions[i].toolName = "AskUserQuestion"
\* respondToPermission: the statements before and after its fetch.
respondToPermission(c, id) ==
    [c EXCEPT !.respondedPermissions = @ \cup {id},
              !.pendingPermissions = SelectSeq(@, LAMBDA q : q.id # id),
              !.questionAnswers = @ \ {id},
              !.answered = @ \cup {id},
              !.cleanups = Append(@, id)]
\* The fetch of POST /api/permission-respond: handled by the server, or
\* rejected (the catch block only logs).
FetchRespond(id, allow, rejected) ==
    IF rejected
    THEN /\ last' = [op |-> "respond-rejected", id |-> id, allow |-> allow]
         /\ UNCHANGED serverVars
    ELSE PermissionRespond(id, allow)
\* An Allow or Deny button of a displayed request.
RespondToPermission(id, allow, rejected) ==
    /\ Displayed(client, id)
    /\ client' = Render(respondToPermission(client, id))
    /\ FetchRespond(id, allow, rejected)
\* setTimeout(() => respondedPermissionsRef.current.delete(id), 10000)
CleanupFires ==
    /\ client.cleanups # <<>>
    /\ client' = [client EXCEPT !.cleanups = Tail(@),
                                !.respondedPermissions = @ \ {Head(client.cleanups)}]
    /\ last' = [op |-> "cleanup", id |-> Head(client.cleanups)]
    /\ UNCHANGED serverVars
SelectQuestionOption(id) ==
    /\ IsQuestion(client, id)
    /\ client' = Render([client EXCEPT !.questionAnswers = @ \cup {id}])
    /\ last' = [op |-> "select-option", id |-> id]
    /\ UNCHANGED serverVars
\* The Submit button of a displayed AskUserQuestion request.  Without a
\* selected option it returns at once; otherwise it allows the request,
\* puts the answer into the input and arms setTimeout(() => sendMessage(), 100)
\* with the sendMessage of this render.
SubmitQuestionAnswer(id, rejected) ==
    /\ IsQuestion(client, id)
    /\ Len(client.chats) + Len(client.sendTimers) < MaxSends
    /\ IF id \notin client.questionAnswers
       THEN /\ last' = [op |-> "submit-answer", id |-> id, answered |-> FALSE]
            /\ UNCHANGED <<serverVars, client>>
       ELSE /\ client' = Render(
                 [respondToPermission(client, id) EXCEPT
                     !.input = AnswerText,
                     !.sendTimers = Append(@, [isLoading |-> client.isLoading,
                                               currentSessionId |->
                                                   client.currentSessionId])])
            /\ FetchRespond(id, TRUE, rejected)
SendTimerFires ==
    /\ client.sendTimers # <<>>
    /\ LET timer == Head(client.sendTimers)
           sent == sendMessage(client, timer.isLoading, timer.currentSessionId)
       IN  /\ client' = Render([sent EXCEPT !.sendTimers = Tail(@)])
           /\ last' = [op |-> "send-timer", input |-> client.input,
                       sent |-> Len(sent.chats) > Len(client.chats)]
    /\ UNCHANGED serverVars

\* pollSession up to its fetch: run by the interval, for the session of the
\* effect that created the interval; without a session it returns.
PollSession ==
    /\ client.polling
    /\ client.currentSessionId # NoValue
    /\ client.sessionPolls = <<>>
    /\ client' = [client EXCEPT !.sessionPolls = Append(@, client.currentSessionId)]
    /\ last' = [op |-> "poll-session"]
    /\ UNCHANGED serverVars
\* pollSession after its fetch: n messages arrived.
SessionPollArrives(n) ==
    /\ client.sessionPolls # <<>>
    /\ client' = Render(
         IF n > client.messageCount
         THEN [client EXCEPT !.sessionPolls = Tail(@), !.messages = n,
                             !.messageCount = n]
         ELSE [client EXCEPT !.sessionPolls = Tail(@)])
    /\ last' = [op |-> "session-poll-arrives", n |-> n]
    /\ UNCHANGED serverVars

\* =================================================================== claims
Calls == 1..Len(calls)
RespondStep == last'.op = "permission-respond"
TimeoutStep == last'.op = "timeout"

\* C1 (as claimed): every non-bypass caller gets exactly one outcome: the
\* user's decision if a permission-respond for its id ran before its timer
\* fired, the timeout deny if its timer fired first; the loser of the race
\* is a no-op.
C1_ExactlyOneOutcome ==
    \A r \in Calls :
        /\ calls[r].answer # NoDecision => calls[r].decision = calls[r].answer
        /\ (calls[r].answer = NoDecision /\ ~TimerArmed(r))
               => calls[r].decision = TimeoutDecision
        /\ calls[r].resolveCalls <= 1

\* C2 (as claimed, in the form a finite run refutes): once a caller's timer
\* has fired the caller is no longer suspended.
C2_NoCallerLeftSuspended ==
    \A r \in Calls : ~TimerArmed(r) => ~Suspended(r)

\* C3: a non-bypass caller is resolved only by a permission-respond for its
\* own id that found its entry pending, or by its own timer; it gets
\* "allow"/"User approved" only from a respond with allow = true; every
\* decision delivered is "allow" or "deny".
C3_DecisionStep ==
    \A r \in Calls :
        (Suspended(r) /\ calls'[r].promise = "fulfilled") =>
            \/ /\ RespondStep
               /\ last'.id = calls[r].id
               /\ Registered(r)
               /\ last'.response.success
               /\ calls'[r].decision.permissionDecision =
                      (IF last'.allow THEN "allow" ELSE "deny")
               /\ calls'[r].decision.permissionDecisionReason =
                      (IF last'.allow THEN "User approved"
                       ELSE "User denied permission")
            \/ /\ TimeoutStep
               /\ last'.resolve = r
               /\ calls'[r].decision.permissionDecision = "deny"
               /\ calls'[r].decision.permissionDecisionReason =
                      "Permission request timed out"
C3_DecisionShape ==
    \A r \in Calls :
        \/ Suspended(r) /\ calls[r].decision = NoDecision
        \/ /\ ~Suspended(r)
           /\ calls[r].decision.permissionDecision \in {"allow", "deny"}
           /\ calls[r].decision.hookEventName = "PreToolUse"
C3_DecisionOnlyFromRespondOrTimeout ==
    [][C3_DecisionStep]_vars /\ []C3_DecisionShape
\* C3 witness: a caller holding "allow" / "User approved".
C3_Witness ==
    \E r \in Calls :
        /\ calls[r].decision.permissionDecision = "allow"
        /\ calls[r].decision.permissionDecisionReason = "User approved"
        /\ last.op = "permission-respond" /\ last.id = calls[r].id /\ last.allow

\* C4 (as claimed): each request has exactly one timer, and the timer
\* callback of an already resolved request removes no map entry and calls
\* no resolve function.
C4_OneTimer ==
    \A r \in Calls :
        Cardinality({i \in 1..Len(timers) : timers[i].resolve = r}) <= 1
C4_StaleTimerStep ==
    (TimeoutStep /\ ~Suspended(last'.resolve)) =>
        /\ pendingPermissions' = pendingPermissions
        /\ \A r \in Calls : calls'[r].resolveCalls = calls[r].resolveCalls
C4_ResolvedTimerIgnored == []C4_OneTimer /\ [][C4_StaleTimerStep]_vars

\* C5 (as claimed): at most one entry per identifier in the pending set,
\* and every registered request leaves the set exactly once, by its user
\* response or its timeout.
C5_OnePerIdRemovedOnce ==
    /\ \A i, j \in 1..Len(pendingPermissions) :
           pendingPermissions[i].id = pendingPermissions[j].id => i = j
    /\ \A r \in Calls :
           /\ Registered(r) <=> calls[r].removedBy = NoValue
           /\ ~Registered(r) => calls[r].removedBy \in {"respond", "timeout"}

\* An id answered successfully with no request registered under it since.
AnsweredSince(id) ==
    \E r \in Calls :
        /\ calls[r].id = id
        /\ calls[r].removedBy = "respond"
        /\ \A r2 \in Calls : r2 > r => calls[r2].id # id

\* C6: for one pending request, the first permission-respond returns
\* success and resolves the caller with the user's decision; a second one
\* for the same id (no request registered under it in between) returns
\* success:false and changes no decision.
C6_Step ==
    \A id \in Ids :
        (RespondStep /\ last'.id = id) =>
            /\ Has(pendingPermissions, id) =>
                   /\ last'.response.success
                   /\ \E r \in Calls :
                          /\ Registered(r) /\ calls[r].id = id
                          /\ calls'[r].promise = "fulfilled"
            /\ AnsweredSince(id) =>
                   /\ ~last'.response.success
                   /\ \A r \in Calls :
                          /\ calls'[r].decision = calls[r].decision
                          /\ calls'[r].promise = calls[r].promise
C6_SecondRespondFindsNothing == [][C6_Step]_vars
\* C6 witness: the second permission-respond for an answered id has run.
C6_Witness ==
    /\ last.op = "permission-respond"
    /\ ~last.response.success
    /\ AnsweredSince(last.id)
    /\ \E r \in Calls : calls[r].id = last.id /\ calls[r].resolveCalls = 1

\* C7: permission-respond for an id with no pending entry returns
\* success:false with the not-found error, leaves the map unchanged and
\* resolves no caller.
C7_Step ==
    (RespondStep /\ ~Has(pendingPermissions, last'.id)) =>
        /\ last'.response.success = FALSE
        /\ last'.response.error = "Permission request not found or expired"
        /\ pendingPermissions' = pendingPermissions
        /\ \A r \in Calls :
               /\ calls'[r].promise = calls[r].promise
               /\ calls'[r].decision = calls[r].decision
               /\ calls'[r].resolveCalls = calls[r].resolveCalls
C7_RespondUnknownId == [][C7_Step]_vars
\* C7 witness: a respond for an id whose request already timed out, while
\* another caller is still suspended.
C7_Witness ==
    /\ last.op = "permission-respond"
    /\ ~last.response.success
    /\ \E r \in Calls : calls[r].id = last.id /\ calls[r].removedBy = "timeout"
    /\ \E r \in Calls : Suspended(r)

\* C8: a bypassPermissions request returns allow at once, registers no
\* entry, arms no timer and changes nothing a listing would return.
C8_Step ==
    (last'.op = "permission-request" /\ last'.mode = "bypassPermissions") =>
        /\ pendingPermissions' = pendingPermissions
        /\ timers' = timers
        /\ calls' = calls
        /\ last'.response.permissionDecision = "allow"
        /\ last'.response.permissionDecisionReason = "Bypass mode - auto-approved"
C8_BypassRegistersNothing == [][C8_Step]_vars
\* C8 witness: a bypass request under an id that was not pending, made
\* while another request is pending.
C8_Witness ==
    /\ last.op = "permission-request"
    /\ last.mode = "bypassPermissions"
    /\ ~Has(pendingPermissions, last.id)
    /\ Len(pendingPermissions) = 1

\* C9: with two pending requests under distinct ids, a permission-respond
\* or a timeout for one removes and resolves only that one; the other stays
\* pending and suspended.
C9_Step ==
    \A r1, r2 \in Calls :
        ( /\ Registered(r1) /\ Registered(r2)
          /\ calls[r1].id # calls[r2].id
          /\ \/ RespondStep /\ last'.id = calls[r1].id
             \/ TimeoutStep /\ last'.resolve = r1 ) =>
            /\ ~RegisteredIn(pendingPermissions', r1)
            /\ calls'[r1].promise = "fulfilled"
            /\ RegisteredIn(pendingPermissions', r2)
            /\ calls'[r2].promise = "pending"
            /\ calls'[r2].resolveCalls = 0
C9_OthersUntouched == [][C9_Step]_vars
\* C9 witness: a later request was registered and answered while an
\* earlier one, under another id, is still pending and suspended.
C9_Witness ==
    \E r1, r2 \in Calls :
        /\ r1 < r2
        /\ Registered(r1) /\ Suspended(r1)
        /\ calls[r2].removedBy = "respond"
        /\ calls[r1].id # calls[r2].id

\* C10 (as claimed): GET /api/permission-pending returns exactly the
\* requests whose callers are suspended, one item each, and changes nothing.
C10_ListedAreSuspended ==
    last.op = "permission-pending" =>
        LET items == last.response.pending
        IN  /\ Len(items) = Cardinality({r \in Calls : Suspended(r)})
            /\ \A r \in Calls :
                   Suspended(r) => \E i \in 1..Len(items) : items[i].id = calls[r].id
C10_ListStep ==
    last'.op = "permission-pending" =>
        /\ pendingPermissions' = pendingPermissions
        /\ calls' = calls
        /\ timers' = timers
C10_PendingListsSuspended == []C10_ListedAreSuspended /\ [][C10_ListStep]_vars

\* C18: every entry created in the pending map is eventually destroyed.  As
\* long as an entry is in the map, the timer armed together with it has not
\* fired, so no entry is in the map without an armed timer for its id; and
\* once requests stop arriving and the timers have fired the map is empty
\* and stays empty.
C18_EntryHasTimer ==
    \A i \in 1..Len(pendingPermissions) :
        /\ TimerArmed(pendingPermissions[i].resolve)
        /\ \E j \in 1..Len(timers) : timers[j].id = pendingPermissions[i].id
C18_EveryEntryDestroyed ==
    /\ []C18_EntryHasTimer
    /\ <>[](pendingPermissions = <<>>)
\* An entry was created and its own timer destroyed it; nothing is left.
C18_Witness ==
    /\ pendingPermissions = <<>>
    /\ timers = <<>>
    /\ \E r \in Calls : calls[r].removedBy = "timeout"

\* ------------------------------------------------------------- chat claims
ChatCalls == 1..Len(chats)

\* C13 (as claimed): an abort for a registered requestId sets the entry's
\* aborted flag, kills its subprocess, removes the entry and returns
\* success; the chat call it aborted returns {success:false, aborted:true}.
C13_AbortStep ==
    (last'.op = "abort" /\ Has(runningProcesses, last'.requestId)) =>
        LET c == Get(runningProcesses, last'.requestId).chat
        IN  /\ last'.response.success
            /\ chats'[c].aborted
            /\ chats'[c].proc # "running"
            /\ ~Has(runningProcesses', last'.requestId)
C13_AbortedReturn ==
    \A c \in ChatCalls :
        (chats[c].aborted /\ chats[c].pc = "returned") =>
            /\ chats[c].result.success = FALSE
            /\ "aborted" \in DOMAIN chats[c].result
            /\ chats[c].result.aborted
C13_AbortThenAborted == [][C13_AbortStep]_vars /\ []C13_AbortedReturn

\* C14 (as claimed): the running-process table holds only entries of chat
\* calls that have not returned yet.
C14_TableHoldsInFlight ==
    \A i \in 1..Len(runningProcesses) :
        /\ chats[runningProcesses[i].chat].requestId = runningProcesses[i].id
        /\ chats[runningProcesses[i].chat].pc = "reading"

\* C15 (as claimed): a chat call that supplied a requestId and whose
\* subprocess is running, not aborted, is registered under that requestId
\* with its own subprocess.
C15_InFlightStaysRegistered ==
    \A c \in ChatCalls :
        ( /\ Truthy(chats[c].requestId)
          /\ chats[c].pc = "reading"
          /\ chats[c].proc = "running"
          /\ ~chats[c].aborted ) =>
            /\ Has(runningProcesses, chats[c].requestId)
            /\ Get(runningProcesses, chats[c].requestId).chat = c

\* C16: each chat call spawns once; when the subprocess exits non-zero
\* (not aborted) or spawning / reading throws, the call returns
\* success:false with an error and has not spawned again.
C16_SpawnOnceErrorPayload ==
    \A c \in ChatCalls :
        /\ chats[c].spawns = 1
        /\ ( /\ chats[c].pc = "returned"
             /\ \/ chats[c].threw
                \/ ~chats[c].aborted /\ chats[c].proc = "exited1" ) =>
               /\ chats[c].result.success = FALSE
               /\ "error" \in DOMAIN chats[c].result
               /\ "aborted" \notin DOMAIN chats[c].result
\* C16 witness: one call returned after a non-zero exit, another after a throw.
C16_Witness ==
    /\ \E c \in ChatCalls :
           /\ chats[c].pc = "returned" /\ chats[c].proc = "exited1"
           /\ ~chats[c].aborted /\ ~chats[c].threw
           /\ chats[c].result.success = FALSE
    /\ \E c \in ChatCalls : chats[c].threw /\ chats[c].result.success = FALSE

\* The value that follows flag in argv, NoValue when the flag is absent.
ArgAfter(argv, flag) ==
    IF \E i \in 1..(Len(argv) - 1) : argv[i] = flag
    THEN argv[(CHOOSE i \in 1..(Len(argv) - 1) : argv[i] = flag) + 1]
    ELSE NoValue
\* C20 (as claimed): --output-format stream-json; --permission-mode is the
\* request's permissionMode, or "default" when it is absent; --resume
\* <sessionId> iff a non-empty sessionId was supplied.
C20_ArgsAsClaimed ==
    last.op = "chat" =>
        /\ ArgAfter(last.argv, "--output-format") = "stream-json"
        /\ ArgAfter(last.argv, "--permission-mode") =
               (IF last.body.permissionMode = NoValue THEN "default"
                ELSE last.body.permissionMode)
        /\ ArgAfter(last.argv, "--resume") =
               (IF last.body.sessionId \in {NoValue, ""} THEN NoValue
                ELSE last.body.sessionId)
\* C20 (amended): as claimed, with --permission-mode "default" when the
\* request's permissionMode is absent or the empty string.
C20_ArgsAmended ==
    last.op = "chat" =>
        /\ last.argv[1] = "claude"
        /\ ArgAfter(last.argv, "--output-format") = "stream-json"
        /\ ArgAfter(last.argv, "--permission-mode") =
               (IF last.body.permissionMode \in {NoValue, ""} THEN "default"
                ELSE last.body.permissionMode)
        /\ ArgAfter(last.argv, "--resume") =
               (IF last.body.sessionId \in {NoValue, ""} THEN NoValue
                ELSE last.body.sessionId)
\* C20 witness: a chat with an empty permissionMode that resumes a session.
C20_Witness ==
    /\ last.op = "chat"
    /\ last.body.permissionMode = ""
    /\ last.body.sessionId = "s1"
    /\ ArgAfter(last.argv, "--resume") = "s1"

\* ------------------------------------------------------------- hook claims
HookRuns == 1..Len(hooks)
IsDecision(o, d) ==
    /\ "permissionDecision" \in DOMAIN o
    /\ o.permissionDecision = d
\* What the server returned to run h's curl, as the server's own state has it.
ServerReturned(h) ==
    IF hooks[h].call # 0 THEN calls[hooks[h].call].decision
    ELSE IF hooks[h].curlExit = 0 /\ hooks[h].mode = "bypassPermissions"
         THEN BypassDecision
         ELSE NoDecision

\* C12: whenever the hook's curl exits non-zero the hook prints the deny
\* decision with reason "Failed to connect to permission server"; and the
\* hook prints an allow only if curl exited 0 and the server returned allow.
C12_HookFailsClosed ==
    \A h \in HookRuns :
        hooks[h].state = "exited" =>
            /\ hooks[h].curlExit # 0 =>
                 /\ IsDecision(hooks[h].output, "deny")
                 /\ hooks[h].output.permissionDecisionReason
                        = "Failed to connect to permission server"
            /\ IsDecision(hooks[h].output, "allow") =>
                 /\ hooks[h].curlExit = 0
                 /\ IsDecision(ServerReturned(h), "allow")
\* One run ran into --max-time and printed the deny although the user later
\* allowed its request; another run printed the allow the server returned.
C12_Witness ==
    /\ \E h \in HookRuns :
          /\ hooks[h].curlExit = 28
          /\ hooks[h].output = HookFailed
          /\ IsDecision(ServerReturned(h), "allow")
    /\ \E h \in HookRuns :
          /\ hooks[h].curlExit = 0
          /\ IsDecision(hooks[h].output, "allow")

\* C17: a hook whose pending request no permission-respond resolved prints a
\* deny, whichever of curl's --max-time and the server's timer fires first:
\* it never prints an allow, and it does not stay without output.
C17_UnansweredIsDenied ==
    \A h \in HookRuns :
        (/\ hooks[h].call # 0
         /\ hooks[h].state = "exited"
         /\ calls[hooks[h].call].removedBy # "respond")
            => IsDecision(hooks[h].output, "deny")
C17_HookExits(h) ==
    (h \in HookRuns /\ hooks[h].state = "curl")
        ~> (h \in HookRuns /\ hooks[h].state = "exited")
C17_DenyUnderEitherTimeout ==
    /\ []C17_UnansweredIsDenied
    /\ \A h \in 1..MaxHooks : C17_HookExits(h)
\* Two unanswered requests: for one the server's timer fired first and the
\* hook printed its deny, for the other curl's --max-time fired first.
C17_Witness ==
    /\ \E h \in HookRuns :
          /\ hooks[h].call # 0 /\ hooks[h].curlExit = 0
          /\ hooks[h].output = Decision("deny", "Permission request timed out")
          /\ calls[hooks[h].call].removedBy = "timeout"
    /\ \E h \in HookRuns :
          /\ hooks[h].call # 0 /\ hooks[h].curlExit = 28
          /\ IsDecision(hooks[h].output, "deny")
          /\ calls[hooks[h].call].removedBy # "respond"

\* ----------------------------------------------------------- config claims
\* C19: after POST /api/hook-configure returned success for a location,
\* GET /api/hook-status reports configured = true with that location's
\* flag set, so the client does not show the setup banner.
C19_Step ==
    (last'.op = "hook-configure" /\ last'.response.success) =>
        LET status == StatusResponse(settings')
        IN  /\ status.configured
            /\ IF last'.location = "global" THEN status.globalConfigured
               ELSE status.projectConfigured
            /\ ~SetupBanner(status)
C19_ConfiguredAfterSetup == [][C19_Step]_vars

\* ------------------------------------------------------------ frame claim
\* C11: an entry of the pending map is created only by a non-bypass
\* permission-request, and an entry is removed or changed only by a
\* permission-respond for its id or by a timeout firing for its id; every
\* other operation leaves the map as it is.
EntriesKept(ids) ==
    \A i \in 1..Len(pendingPermissions) :
        pendingPermissions[i].id \notin ids =>
            \E j \in 1..Len(pendingPermissions') :
                pendingPermissions'[j] = pendingPermissions[i]
EntriesNew(ids) ==
    \A j \in 1..Len(pendingPermissions') :
        pendingPermissions'[j].id \notin ids =>
            \E i \in 1..Len(pendingPermissions) :
                pendingPermissions[i] = pendingPermissions'[j]
C11_Step ==
    IF last'.op = "permission-request" /\ "call" \in DOMAIN last'
    THEN EntriesKept({}) /\ EntriesNew({last'.id})
    ELSE IF last'.op \in {"permission-respond", "timeout"}
    THEN EntriesKept({last'.id}) /\ EntriesNew({})
    ELSE pendingPermissions' = pendingPermissions
C11_MapFrame == [][C11_Step]_vars

\* ------------------------------------------------- end-to-end hook claims
\* C21 (as claimed): when a permission-respond with allow = true returned
\* success and thereby resolved a hook's request, that hook run outputs an
\* allow: no exited run whose request the user allowed has printed
\* anything else.
C21_ApprovalReachesHook ==
    \A h \in HookRuns :
        ( /\ hooks[h].call # 0
          /\ hooks[h].state = "exited"
          /\ calls[hooks[h].call].removedBy = "respond"
          /\ IsDecision(calls[hooks[h].call].decision, "allow") ) =>
            IsDecision(hooks[h].output, "allow")

\* C22 (as claimed): everything the hook script prints is a decision with
\* permissionDecision "allow" or "deny", also when the server answered the
\* POST with an HTTP error.
C22_OutputIsDecision ==
    \A h \in HookRuns :
        hooks[h].state = "exited" =>
            \/ IsDecision(hooks[h].output, "allow")
            \/ IsDecision(hooks[h].output, "deny")

\* ---------------------------------------------------------- abort claims
\* C23 (as claimed): a chat call returns {aborted: true} if and only if an
\* abort for its requestId was accepted while its subprocess was running
\* (the abort is what killed it).
C23_AbortedIffKilled ==
    \A c \in ChatCalls :
        chats[c].pc = "returned" =>
            ( ("aborted" \in DOMAIN chats[c].result /\ chats[c].result.aborted)
              <=> chats[c].proc = "killed" )

\* C24: an abort for a requestId that is not in the running-process table
\* returns success:false with "No running request found" and changes
\* neither a chat call's subprocess or aborted flag nor the table; so an
\* abort that directly follows an accepted abort of the same requestId
\* reports failure.
C24_Step ==
    /\ (last'.op = "abort" /\ ~Has(runningProcesses, last'.requestId)) =>
          /\ chats' = chats
          /\ runningProcesses' = runningProcesses
          /\ last'.response.success = FALSE
          /\ last'.response.error = "No running request found"
    /\ ( /\ last.op = "abort"
         /\ last'.op = "abort"
         /\ last'.requestId = last.requestId
         /\ last.response.success ) =>
          last'.response.success = FALSE
C24_AbortUnknown == [][C24_Step]_vars
\* A request was aborted and the abort repeated.
C24_Witness ==
    /\ last.op = "abort"
    /\ last.response.success = FALSE
    /\ \E c \in ChatCalls :
          /\ chats[c].requestId = last.requestId
          /\ chats[c].aborted
          /\ chats[c].proc = "killed"

\* ---------------------------------------------------------- client claims
\* C25 (as claimed): at most one POST /api/chat of the client is in flight,
\* and while one is in flight isLoading is true and currentRequestId is its
\* requestId.
C25_OneChatInFlight ==
    /\ Cardinality(InFlight(client)) <= 1
    /\ \A i \in InFlight(client) :
          /\ client.isLoading
          /\ client.currentRequestId = client.chats[i].requestId

\* C26 (as claimed): an id the user responded to is not displayed again
\* while the same session stays selected.
C26_RespondedNeverShownAgain ==
    \A id \in client.answered : ~Displayed(client, id)

\* C27 (as claimed): a submit with a selected option allows the request and
\* its timer then sends the answer text as a chat message; a submit without
\* a selected option changes nothing.
C27_Step ==
    /\ Len(client'.sendTimers) > Len(client.sendTimers) =>
          /\ last'.op \in {"permission-respond", "respond-rejected"}
          /\ last'.allow
          /\ client'.input = AnswerText
    /\ (last'.op = "send-timer" /\ last'.input = AnswerText) => last'.sent
    /\ (last'.op = "submit-answer" /\ ~last'.answered) =>
          /\ client' = client
          /\ pendingPermissions' = pendingPermissions
C27_AnswerIsSent == [][C27_Step]_vars

\* C29 (as claimed): the session-poll interval is active only while a chat
\* request is in flight and no permission request is displayed; and an
\* arriving poll result replaces the messages only if it has more messages
\* than the baseline, and never leaves fewer messages displayed.
C29_IntervalOnlyWhileChatLoads ==
    client.polling =>
        /\ InFlight(client) # {}
        /\ client.pendingPermissions = <<>>
C29_PollStep ==
    last'.op = "session-poll-arrives" =>
        /\ client'.messages >= client.messages
        /\ client'.messageCount # client.messageCount =>
              last'.n > client.messageCount
C29_PollsOnlyWhileLoading ==
    /\ []C29_IntervalOnlyWhileChatLoads
    /\ [][C29_PollStep]_vars

\* C28 (as claimed): after a successful POST /api/hook-configure the file
\* of its location has exactly one PreToolUse entry of ours, and the other
\* entries and the other hook list that were in the file are still there.
OthersOf(list) ==
    IF list.kind = "array" THEN SelectSeq(list.items, LAMBDA e : e # "ours")
    ELSE <<>>
C28_Step ==
    (last'.op = "hook-configure" /\ last'.response.success) =>
        LET before == ReadSettings(settings[last'.location])
            after == settings'[last'.location]
        IN  /\ after.kind = "object"
            /\ after.hooks.kind = "object"
            /\ after.hooks.PreToolUse.kind = "array"
            /\ Len(SelectSeq(after.hooks.PreToolUse.items,
                             LAMBDA e : e = "ours")) = 1
            /\ OthersOf(after.hooks.PreToolUse)
                 = OthersOf(Member(before.hooks, "PreToolUse"))
            /\ after.hooks.PermissionRequest
                 = Member(before.hooks, "PermissionRequest")
C28_ConfigureIdempotent == [][C28_Step]_vars

Init ==
    /\ pendingPermissions = <<>>
    /\ calls = <<>>
    /\ timers = <<>>
    /\ now = 0
    /\ runningProcesses = <<>>
    /\ chats = <<>>
    /\ hooks = <<>>
    /\ settings = [l \in Locations |-> NoFile]
    /\ client = InitClient
    /\ last = [op |-> "start"]

\* A POST /api/permission-request whose client is not modelled.
Request ==
    \E tool_name \in ToolNames, tool_input \in ToolInputs,
       tool_use_id \in ToolUseIds \cup {NoValue, ""}, session_id \in SessionIds,
       permission_mode \in PermissionModes :
        /\ PermissionRequest(tool_name, tool_input, tool_use_id, session_id,
                             permission_mode)
        /\ UNCHANGED hooks

Respond ==
    \E id \in Ids, allow \in BOOLEAN :
        PermissionRespond(id, allow) /\ UNCHANGED client

Next ==
    \/ Request
    \/ Timeout
    \/ PermissionPending
    \/ Respond
    \/ Tick

Spec == Init /\ [][Next]_vars
\* setTimeout callbacks are run by the event loop once their delay elapsed.
SpecLive == Spec /\ WF_vars(Timeout)

Chat ==
    \E message \in Messages, sessionId \in ChatSessionIds,
       requestId \in RequestIds \cup {NoValue}, permissionMode \in ChatModes,
       spawnThrows \in BOOLEAN, e \in Thrown :
        PostChat(message, sessionId, requestId, permissionMode, spawnThrows, e)
Exit == \E c \in 1..Len(chats), code \in {0, 1} : ProcExit(c, code)
Resume == \E c \in 1..Len(chats), stderr \in Outputs, output \in Outputs :
              ChatResume(c, stderr, output)
Throw == \E c \in 1..Len(chats), e \in Thrown : ReadThrows(c, e)
Abort == \E requestId \in RequestIds : PostAbort(requestId)

ChatNext ==
    \/ Chat
    \/ Exit
    \/ Resume
    \/ Throw
    \/ Abort

SpecChat == Init /\ [][ChatNext]_vars
\* The broker with the hook script as the client of the long-polling route.
Post ==
    \E tool_name \in ToolNames, tool_input \in ToolInputs,
       tool_use_id \in ToolUseIds \cup {NoValue}, session_id \in {NoValue},
       permission_mode \in PermissionModes :
        HookPost(tool_name, tool_input, tool_use_id, session_id, permission_mode)
Unreachable == \E permission_mode \in PermissionModes : HookUnreachable(permission_mode)
Receive == \E h \in 1..Len(hooks) : HookReceive(h)
CurlTimeout == \E h \in 1..Len(hooks) : HookCurlTimeout(h)

HookNext ==
    \/ Post
    \/ HookPostInvalid
    \/ Unreachable
    \/ Receive
    \/ CurlTimeout
    \/ Respond
    \/ Timeout

SpecHook == Init /\ [][HookNext]_vars
\* curl's --max-time ends every run that is still waiting; a response the
\* server sent is delivered; the event loop runs the timer callbacks.
SpecHookLive ==
    /\ SpecHook
    /\ \A h \in 1..MaxHooks : WF_vars(HookCurlTimeout(h))
    /\ WF_vars(Receive)
    /\ WF_vars(Timeout)
\* The settings files hold whatever was on disk when the server started.
InitConfig ==
    /\ pendingPermissions = <<>>
    /\ calls = <<>>
    /\ timers = <<>>
    /\ now = 0
    /\ runningProcesses = <<>>
    /\ chats = <<>>
    /\ hooks = <<>>
    /\ settings \in [Locations -> SettingsFiles]
    /\ client = InitClient
    /\ last = [op |-> "start"]
Configure ==
    \E location \in Locations, writeThrows \in BOOLEAN :
        HookConfigure(location, writeThrows)

ConfigNext ==
    \/ HookStatus
    \/ Configure

SpecConfig == InitConfig /\ [][ConfigNext]_vars
\* The whole server: the broker with clients that are not modelled and one
\* run of the hook script, one POST /api/chat call and its abort, and the
\* two settings routes.
FrameRequest ==
    \E tool_name \in ToolNames, tool_input \in ToolInputs,
       tool_use_id \in ToolUseIds, permission_mode \in PermissionModes :
        /\ PermissionRequest(tool_name, tool_input, tool_use_id, NoValue,
                             permission_mode)
        /\ UNCHANGED hooks
FramePost ==
    /\ hooks = <<>>
    /\ \E tool_name \in ToolNames, tool_input \in ToolInputs,
          tool_use_id \in ToolUseIds :
           HookPost(tool_name, tool_input, tool_use_id, NoValue, "default")
FrameChat ==
    /\ chats = <<>>
    /\ \E message \in Messages, requestId \in RequestIds, e \in Thrown :
           PostChat(message, NoValue, requestId, NoValue, FALSE, e)
FrameResume == \E c \in 1..Len(chats) : ChatResume(c, "", "text")
FrameConfigure == \E location \in Locations : HookConfigure(location, FALSE)

FrameNext ==
    \/ FrameRequest
    \/ FramePost
    \/ Receive
    \/ CurlTimeout
    \/ Respond
    \/ Timeout
    \/ PermissionPending
    \/ FrameChat
    \/ Exit
    \/ FrameResume
    \/ Abort
    \/ HookStatus
    \/ FrameConfigure

SpecFrame == Init /\ [][FrameNext]_vars
\* The browser client next to the broker: hook clients that are not
\* modelled post requests, the server's timers fire, and the user acts.
ClientRequest ==
    \E tool_name \in ToolNames \cup {"AskUserQuestion"}, tool_input \in ToolInputs,
       tool_use_id \in ToolUseIds :
        /\ PermissionRequest(tool_name, tool_input, tool_use_id, NoValue, "default")
        /\ UNCHANGED hooks
Type == \E text \in Texts : TypeInput(text)
Settle == \E i \in 1..Len(client.chats), outcome \in Outcomes : ChatSettles(i, outcome)
Created ==
    \E i \in 1..Len(client.chats), sessionId \in ClientSessions, n \in Counts :
        NewSessionLoaded(i, sessionId, n)
Select == \E sessionId \in ClientSessions : SelectSession(sessionId)
Loaded == \E ok \in BOOLEAN, n \in Counts : SessionLoaded(ok, n)
ClickRespond ==
    \E id \in Ids, allow \in BOOLEAN, rejected \in BOOLEAN :
        RespondToPermission(id, allow, rejected)
ClickOption == \E id \in Ids : SelectQuestionOption(id)
ClickSubmit == \E id \in Ids, rejected \in BOOLEAN : SubmitQuestionAnswer(id, rejected)
PollArrives == \E n \in Counts : SessionPollArrives(n)

\* The chat side of the client: sending, settling, sessions, the stop button.
ClientChatNext ==
    \/ Type
    \/ ClickSend
    \/ Settle
    \/ Created
    \/ Select
    \/ Loaded
    \/ StartNewSession
    \/ AbortRequest

SpecClientChat == Init /\ [][ClientChatNext]_vars

\* The permission list of the client next to the broker.
ClientPermNext ==
    \/ ClientRequest
    \/ Timeout
    \/ PollPermissions
    \/ PermissionsArrive
    \/ ClickRespond
    \/ CleanupFires

SpecClientPerm == Init /\ [][ClientPermNext]_vars

\* Answering an AskUserQuestion request, with and without a chat in flight.
ClientAnswerNext ==
    \/ ClientRequest
    \/ PollPermissions
    \/ PermissionsArrive
    \/ ClickOption
    \/ ClickSubmit
    \/ SendTimerFires
    \/ CleanupFires
    \/ Type
    \/ ClickSend
    \/ Settle

SpecClientAnswer == Init /\ [][ClientAnswerNext]_vars

\* The two polls of the client: the transcript of the current session and
\* the pending permission requests.
ClientPollNext ==
    \/ ClientRequest
    \/ PollPermissions
    \/ PermissionsArrive
    \/ Type
    \/ ClickSend
    \/ Settle
    \/ Select
    \/ Loaded
    \/ PollSession
    \/ PollArrives

SpecClientPoll == Init /\ [][ClientPollNext]_vars
====
